---- MODULE Spec2Model ----
(***************************************************************************)
(* Motif search over a genome: exact matching, BLAST-style scoring, the    *)
(* Grover trial loop and the comparison of the two hit sets.               *)
(*                                                                         *)
(* Strings are sequences of one-character strings.  Floating point values  *)
(* (identity, accuracy, agreement_ratio) are kept as exact fractions       *)
(* [num, den]; for the motif lengths and the integer thresholds explored   *)
(* here the float comparisons of the code agree with the exact ones.       *)
(* The quantum sampler (qiskit Grover.amplify) is a black box that returns *)
(* a bit string of width n; every such bit string is a possible outcome.   *)
(***************************************************************************)
EXTENDS Integers, Sequences, FiniteSets, TLC

\* ---------------------------------------------------------------- bounds
MaxGenomeLen == 3
MaxMotifLen == 2
MaxTrials == 2

\* Symbols: an upper-case letter, a lower-case letter and a blank (str.strip
\* removes it at the ends only, so inside a string it is a symbol like any other).
Alphabet == {"A", "c", " "}
\* Thresholds passed to blast_search (70 is the default).
Thresholds == {0, 50, 70, 100, 101}

\* ------------------------------------------------------- program constants
MATCH_REWARD == 2
MISMATCH_PENALTY == 0 - 1
DefaultThreshold == 70

\* ------------------------------------------------------------ python helpers
Min(a, b) == IF a <= b THEN a ELSE b
Max(a, b) == IF a >= b THEN a ELSE b

Strings(n) == UNION {[1..k -> Alphabet] : k \in 0..n}

\* s[a:b] for 0 <= a <= b: positions a .. min(b, len(s)) - 1, clamped.
Slice(s, a, b) == [i \in 1..Max(0, Min(b, Len(s)) - a) |-> s[a + i]]

\* range(k): empty when k <= 0.
Range(k) == 0..(k - 1)

\* range(k - 1): the loop stops one index early.
RangeSeq_short(k) == [i \in 1..Cardinality(Range(k - 1)) |-> i - 1]

\* list(range(k)) as a sequence
RangeSeq(k) == [i \in 1..Cardinality(Range(k)) |-> i - 1]

IsSpace(ch) == ch = " "
Upper(ch) == IF ch = "c" THEN "C" ELSE ch

RECURSIVE LStrip(_)
LStrip(s) == IF s # <<>> /\ IsSpace(Head(s)) THEN LStrip(Tail(s)) ELSE s

RECURSIVE RStrip(_)
RStrip(s) ==
    IF s # <<>> /\ IsSpace(s[Len(s)]) THEN RStrip(SubSeq(s, 1, Len(s) - 1)) ELSE s

\* str.strip().upper()
StripUpper(s) == LET t == RStrip(LStrip(s)) IN [i \in 1..Len(t) |-> Upper(t[i])]

\* sorted(S) for a set of integers
RECURSIVE Sorted(_)
Sorted(S) ==
    IF S = {} THEN <<>>
    ELSE LET m == CHOOSE x \in S : \A y \in S : x <= y
         IN <<m>> \o Sorted(S \ {m})

SeqToSet(s) == {s[i] : i \in 1..Len(s)}

\* ------------------------------------------------------------ blast_search.py
\* _clean_sequence: the cleaned string, or a ValueError when it is empty.
CleanSequence(seq) ==
    LET cleaned == StripUpper(seq)
    IN IF cleaned = <<>> THEN [status |-> "ValueError", value |-> <<>>]
       ELSE [status |-> "ok", value |-> cleaned]

\* sum(1 for a, b in zip(window, motif) if a == b)
Matches(window, motif) ==
    Cardinality({i \in 1..Min(Len(window), Len(motif)) : window[i] = motif[i]})

\* _score_window with the penalty subtracted instead of added.
ScoreWindow_penaltySign(window, motif, idx) ==
    LET matches == Matches(window, motif)
        mismatches == Len(motif) - matches
    IN [index |-> idx,
        window |-> window,
        identity |-> [num |-> matches * 100, den |-> Len(motif)],
        matches |-> matches,
        score |-> matches * MATCH_REWARD - mismatches * MISMATCH_PENALTY,
        is_perfect |-> (matches = Len(window))]

\* _score_window followed by the caller's index assignment and to_dict().
ScoreWindow(window, motif, idx) ==
    LET matches == Matches(window, motif)
        mismatches == Len(motif) - matches
    IN [index |-> idx,
        window |-> window,
        identity |-> [num |-> matches * 100, den |-> Len(motif)],
        matches |-> matches,
        score |-> matches * MATCH_REWARD + mismatches * MISMATCH_PENALTY,
        is_perfect |-> (matches = Len(window))]

\* identity >= threshold_value
MeetsThreshold(w, th) == w.identity.num >= th * w.identity.den

\* The sort key with index instead of -index.
KeyGreater_indexDescending(a, b) ==
    LET ia == a.identity.num * b.identity.den
        ib == b.identity.num * a.identity.den
    IN \/ ia > ib
       \/ ia = ib /\ a.score > b.score
       \/ ia = ib /\ a.score = b.score /\ a.index > b.index

\* a's sort key (identity, score, -index) is greater than b's.
KeyGreater(a, b) ==
    LET ia == a.identity.num * b.identity.den
        ib == b.identity.num * a.identity.den
    IN \/ ia > ib
       \/ ia = ib /\ a.score > b.score
       \/ ia = ib /\ a.score = b.score /\ (0 - a.index) > (0 - b.index)

\* hits.sort(key=..., reverse=True): greatest key first.
RECURSIVE SortHits(_)
SortHits(S) ==
    IF S = {} THEN <<>>
    ELSE LET top == CHOOSE x \in S : \A y \in S \ {x} : KeyGreater(x, y)
         IN <<top>> \o SortHits(S \ {top})

NoHit == [index |-> 0 - 1]

BlastError == [status |-> "ValueError"]

\* The loop of blast_search: one scored window per idx in range(len(genome) - len(motif) + 1).
ScoreAll(genome_, motif_, idxs) ==
    [i \in 1..Len(idxs) |->
        ScoreWindow(Slice(genome_, idxs[i], idxs[i] + Len(motif_)), motif_, idxs[i])]

\* The windows the loop appends to hits.
HitSet(windows, th) ==
    {windows[i] : i \in {j \in 1..Len(windows) : MeetsThreshold(windows[j], th)}}

\* The dictionary blast_search returns.
BlastResult(genome_, motif_, th, windows, hits) ==
    [status |-> "ok",
     threshold |-> th,
     genome_length |-> Len(genome_),
     motif_length |-> Len(motif_),
     hit_count |-> Len(hits),
     hits |-> hits,
     top_hit |-> IF hits # <<>> THEN hits[1] ELSE NoHit,
     all_windows |-> windows]

\* blast_search once both sequences are cleaned.
BlastCleaned(genome_, motif_, th) ==
    IF Len(motif_) > Len(genome_) THEN BlastError
    ELSE LET windows == ScoreAll(genome_, motif_, RangeSeq(Len(genome_) - Len(motif_) + 1))
         IN BlastResult(genome_, motif_, th, windows, SortHits(HitSet(windows, th)))

blast_search(g, m, th) ==
    IF CleanSequence(g).status # "ok" \/ CleanSequence(m).status # "ok" THEN BlastError
    ELSE BlastCleaned(CleanSequence(g).value, CleanSequence(m).value, th)

\* ------------------------------------------------------ grover_genomics_demo.py
\* classical_find_occurrences: no normalisation and no validation.
classical_find_occurrences(g, m) ==
    LET L == Len(m)
        idxs == RangeSeq(Len(g) - L + 1)
        windows == [i \in 1..Len(idxs) |-> Slice(g, idxs[i], idxs[i] + L)]
        good == SelectSeq(RangeSeq(Len(windows)),
                          LAMBDA i : windows[i + 1] = m)
    IN [windows |-> windows, good |-> good]

RECURSIVE CeilLog2(_)
\* math.ceil(math.log2(N)) for N >= 1
CeilLog2(N) == IF N <= 1 THEN 0 ELSE 1 + CeilLog2((N + 1) \div 2)

\* The register width grover_once uses for N windows.
BitWidth(N) == LET n == CeilLog2(N) IN IF n = 0 THEN 1 ELSE n

\* int(bits, 2) for every bit string the sampler can measure on n qubits.
Measurable(n) == 0..(2 ^ n - 1)

\* counts[idx] = 1 instead of counts[idx] += 1
CounterAdd_overwrite(counts, idx) ==
    [j \in DOMAIN counts \cup {idx} |-> IF j = idx THEN 1 ELSE counts[j]]

\* counts[idx] += 1 on a Counter
CounterAdd(counts, idx) ==
    IF idx \in DOMAIN counts
    THEN [counts EXCEPT ![idx] = @ + 1]
    ELSE [j \in DOMAIN counts \cup {idx} |-> IF j = idx THEN 1 ELSE counts[j]]

EmptyCounter == [j \in {} |-> 0]

RECURSIVE SumOver(_, _)
SumOver(f, S) ==
    IF S = {} THEN 0
    ELSE LET x == CHOOSE y \in S : TRUE IN f[x] + SumOver(f, S \ {x})

\* sum(counts.values())
CounterTotal(counts) == SumOver(counts, DOMAIN counts)

\* ---------------------------------------------------------------- compare
\* The chain with the two one-sided rules testing the wrong side.
_build_analysis_message_swapped(overlap, grover_only, blast_only) ==
    IF overlap # <<>> /\ ~(grover_only # <<>> \/ blast_only # <<>>) THEN "full"
    ELSE IF overlap # <<>> THEN "partial"
    ELSE IF blast_only # <<>> /\ ~(grover_only # <<>>) THEN "only_grover"
    ELSE IF grover_only # <<>> /\ ~(blast_only # <<>>) THEN "only_blast"
    ELSE "neither"

\* _build_analysis_message
_build_analysis_message(overlap, grover_only, blast_only) ==
    IF overlap # <<>> /\ ~(grover_only # <<>> \/ blast_only # <<>>) THEN "full"
    ELSE IF overlap # <<>> THEN "partial"
    ELSE IF grover_only # <<>> /\ ~(blast_only # <<>>) THEN "only_grover"
    ELSE IF blast_only # <<>> /\ ~(grover_only # <<>>) THEN "only_blast"
    ELSE "neither"

\* The analysis with grover_only = sorted(grover_hits), the difference forgotten.
Analysis_noDifference(grover_hits, blast_hits) ==
    LET overlap == Sorted(grover_hits \cap blast_hits)
        grover_only == Sorted(grover_hits)
        blast_only == Sorted(blast_hits \ grover_hits)
        union == grover_hits \cup blast_hits
    IN [overlap_indices |-> overlap,
        grover_only |-> grover_only,
        blast_only |-> blast_only,
        agreement_ratio |-> IF union # {}
                            THEN [num |-> Len(overlap), den |-> Cardinality(union)]
                            ELSE [num |-> 0, den |-> 1],
        message |-> _build_analysis_message(overlap, grover_only, blast_only)]

\* The analysis block of compare_methods for the two hit sets.
Analysis(grover_hits, blast_hits) ==
    LET overlap == Sorted(grover_hits \cap blast_hits)
        grover_only == Sorted(grover_hits \ blast_hits)
        blast_only == Sorted(blast_hits \ grover_hits)
        union == grover_hits \cup blast_hits
    IN [overlap_indices |-> overlap,
        grover_only |-> grover_only,
        blast_only |-> blast_only,
        agreement_ratio |-> IF union # {}
                            THEN [num |-> Len(overlap), den |-> Cardinality(union)]
                            ELSE [num |-> 0, den |-> 1],
        message |-> _build_analysis_message(overlap, grover_only, blast_only)]

\* compare_methods after blast_search returned.
CompareWith(blast_results, grover_hits) ==
    [status |-> "ok",
     grover_hits |-> grover_hits,
     blast |-> blast_results,
     analysis |-> Analysis(grover_hits,
                           {blast_results.hits[i].index : i \in 1..Len(blast_results.hits)})]

\* The ValueError of blast_search propagates.
CompareChecked(blast_results, good_indices) ==
    IF blast_results.status # "ok" THEN [status |-> "ValueError"]
    ELSE CompareWith(blast_results, SeqToSet(good_indices))

compare_methods(g, m, good_indices, th) ==
    CompareChecked(blast_search(g, m, th), good_indices)

\* What a caller sees of blast_search through a compare_methods outcome.
BlastOf(r) == IF r.status = "ok" THEN r.blast ELSE BlastError

\* The handler's except clause: a ValueError becomes a 400 response.
HandlerResponse(r) == IF r.status = "ok" THEN r ELSE [status |-> "400"]

\* app.py passes trials=50; the loop is explored up to MaxTrials iterations.
HandlerTrials == MaxTrials

\* Trial counts a caller of build_results passes.
TrialCounts == {0 - 1, 0, 1, MaxTrials}
\* Indices a caller of compare_methods lists as good_indices.
Indices == {0, 1, 2}

\* ---------------------------------------------------------------- state
VARIABLES
    genome, motif,      \* the caller's raw inputs
    threshold,          \* the caller's threshold
    given,              \* grover_results["good_indices"] handed to compare_methods
    op,                 \* the operation that was called
    pc,                 \* where the call is
    trials, k,          \* run_trials: requested trials, completed iterations
    hits, counts,       \* run_trials: hit counter and Counter of sampled indices
    sample_good,        \* run_trials: good_indices of the last trial
    calls,              \* number of Grover.amplify invocations
    cls,                \* the caller's classical_find_occurrences result
    rt,                 \* what run_trials returned or raised
    blast,              \* what blast_search returned or raised
    res                 \* what the operation returned or raised

vars == <<genome, motif, threshold, given, op, pc, trials, k, hits, counts,
          sample_good, calls, cls, rt, blast, res>>

NoResult == [status |-> "none"]

Init ==
    /\ genome \in Strings(MaxGenomeLen)
    /\ motif \in Strings(MaxMotifLen)
    /\ threshold = DefaultThreshold
    /\ given = <<>>
    /\ op = "none"
    /\ pc = "ready"
    /\ trials = 0
    /\ k = 0
    /\ hits = 0
    /\ counts = EmptyCounter
    /\ sample_good = <<>>
    /\ calls = 0
    /\ cls = NoResult
    /\ rt = NoResult
    /\ blast = NoResult
    /\ res = NoResult

loopVars == <<trials, k, hits, counts, sample_good, calls>>

\* A direct call of blast_search(genome, motif, threshold).
BlastSearch ==
    /\ pc = "ready"
    /\ \E th \in Thresholds :
         /\ threshold' = th
         /\ blast' = blast_search(genome, motif, th)
    /\ op' = "blast"
    /\ pc' = "done"
    /\ res' = [status |-> blast'.status]
    /\ UNCHANGED <<genome, motif, given, cls, rt>>
    /\ UNCHANGED loopVars

\* A direct call of compare_methods with any grover_results["good_indices"].
CompareMethods ==
    /\ pc = "ready"
    /\ \E th \in Thresholds, A \in SUBSET Indices :
         /\ threshold' = th
         /\ given' = Sorted(A)
         /\ res' = compare_methods(genome, motif, Sorted(A), th)
    /\ blast' = BlastOf(res')
    /\ op' = "compare_methods"
    /\ pc' = "done"
    /\ UNCHANGED <<genome, motif, cls, rt>>
    /\ UNCHANGED loopVars

\* build_results(genome, motif, trials): classical_find_occurrences, then
\* run_trials enters its loop with hits = 0 and an empty Counter.
BuildResults ==
    /\ pc = "ready"
    /\ \E T \in TrialCounts : trials' = T
    /\ cls' = [status |-> "ok"] @@ classical_find_occurrences(genome, motif)
    /\ hits' = 0
    /\ counts' = EmptyCounter
    /\ sample_good' = <<>>
    /\ k' = 0
    /\ op' = "build_results"
    /\ pc' = "loop"
    /\ UNCHANGED <<genome, motif, threshold, given, calls, rt, blast, res>>

\* The /compare handler up to the start of run_trials(genome, motif, trials=50).
\* The request's blast_threshold is first used by CompareReturn and drawn there.
Compare ==
    /\ pc = "ready"
    /\ op' = "compare"
    /\ IF genome = <<>> \/ motif = <<>>
       THEN /\ res' = [status |-> "400"]
            /\ pc' = "done"
            /\ UNCHANGED <<cls, trials, hits, counts, sample_good, k>>
       ELSE /\ cls' = [status |-> "ok"] @@ classical_find_occurrences(genome, motif)
            /\ trials' = HandlerTrials
            /\ hits' = 0
            /\ counts' = EmptyCounter
            /\ sample_good' = <<>>
            /\ k' = 0
            /\ pc' = "loop"
            /\ UNCHANGED res
    /\ UNCHANGED <<genome, motif, threshold, given, calls, rt, blast>>

\* grover_once raises: the motif matches no window.
GroverRaises ==
    /\ rt' = [status |-> "ValueError"]
    /\ res' = [status |-> IF op = "compare" THEN "400" ELSE "ValueError"]
    /\ pc' = "done"
    /\ UNCHANGED <<k, hits, counts, sample_good, calls>>

\* grover_once returns idx; run_trials counts it.
GroverSamples(N, good) ==
    /\ \E idx \in Measurable(BitWidth(N)) :
         /\ counts' = CounterAdd(counts, idx)
         /\ hits' = IF idx \in SeqToSet(good) THEN hits + 1 ELSE hits
    /\ sample_good' = good
    /\ calls' = calls + 1
    /\ k' = k + 1
    /\ UNCHANGED <<rt, res, pc>>

\* One iteration of the loop of run_trials: grover_once and the bookkeeping.
GroverOnce ==
    /\ pc = "loop"
    /\ k \in Range(trials)
    /\ IF classical_find_occurrences(genome, motif).good = <<>>
       THEN GroverRaises
       ELSE GroverSamples(Len(classical_find_occurrences(genome, motif).windows),
                          classical_find_occurrences(genome, motif).good)
    /\ UNCHANGED <<genome, motif, threshold, given, op, trials, cls, blast>>

\* The loop of run_trials is exhausted: acc = hits / trials and the return.
RunTrialsReturn ==
    /\ pc = "loop"
    /\ k \notin Range(trials)
    /\ IF trials = 0
       THEN /\ rt' = [status |-> "ZeroDivisionError"]
            /\ res' = [status |-> IF op = "compare" THEN "500" ELSE "ZeroDivisionError"]
            /\ pc' = "done"
       ELSE /\ rt' = [status |-> "ok",
                      acc |-> [num |-> hits, den |-> trials],
                      counts |-> counts,
                      sample_good |-> sample_good]
            /\ pc' = "returned"
            /\ UNCHANGED res
    /\ UNCHANGED <<genome, motif, threshold, given, op, cls, blast>>
    /\ UNCHANGED loopVars

\* build_results after run_trials returned: total_shots and the result dict.
BuildResultsReturn ==
    /\ pc = "returned"
    /\ op = "build_results"
    /\ res' = [status |-> "ok",
               accuracy |-> rt.acc,
               windows |-> cls.windows,
               good_indices |-> cls.good,
               histogram |-> Sorted(DOMAIN rt.counts),
               total_shots |-> CounterTotal(rt.counts)]
    /\ pc' = "done"
    /\ UNCHANGED <<genome, motif, threshold, given, op, cls, rt, blast>>
    /\ UNCHANGED loopVars

\* The /compare handler after run_trials returned: compare_methods on the
\* raw genome and motif with the caller's good_indices.
CompareReturn ==
    /\ pc = "returned"
    /\ op = "compare"
    /\ \E th \in Thresholds :
         /\ threshold' = th
         /\ res' = HandlerResponse(compare_methods(genome, motif, cls.good, th))
    /\ given' = cls.good
    /\ blast' = BlastOf(res')
    /\ pc' = "done"
    /\ UNCHANGED <<genome, motif, op, cls, rt>>
    /\ UNCHANGED loopVars

Next ==
    \/ BlastSearch
    \/ CompareMethods
    \/ BuildResults
    \/ Compare
    \/ GroverOnce
    \/ RunTrialsReturn
    \/ BuildResultsReturn
    \/ CompareReturn

Spec == Init /\ [][Next]_vars

\* ------------------------------------------------------------ properties
NormGenome == StripUpper(genome)
NormMotif == StripUpper(motif)

\* Both inputs non-empty after normalisation and the motif fits.
ValidInput ==
    /\ NormGenome # <<>>
    /\ NormMotif # <<>>
    /\ Len(NormMotif) <= Len(NormGenome)

\* The arguments of classical_find_occurrences are non-empty and the motif fits.
ValidRaw ==
    /\ genome # <<>>
    /\ motif # <<>>
    /\ Len(motif) <= Len(genome)

\* One window per index 0 .. len(g) - len(m), ascending, with content g[i .. i+len(m)-1].
EnumeratesWindows(ws, g, m) ==
    /\ Len(ws) = Len(g) - Len(m) + 1
    /\ Len(ws) >= 1
    /\ \A i \in 0..(Len(g) - Len(m)) : ws[i + 1] = SubSeq(g, i + 1, i + Len(m))

\* C1: for valid inputs, blast_search (over the normalised strings) and
\* classical_find_occurrences (over its arguments) produce exactly one window
\* per index 0 .. len(genome) - len(motif), in ascending order, with content
\* genome[i .. i+len(motif)-1]; the count is len(genome) - len(motif) + 1 >= 1.
C1_WindowEnumeration ==
    /\ (op \in {"blast", "compare_methods"} /\ pc = "done" /\ ValidInput)
         => /\ blast.status = "ok"
            /\ EnumeratesWindows([i \in 1..Len(blast.all_windows) |-> blast.all_windows[i].window],
                                 NormGenome, NormMotif)
            /\ \A i \in 1..Len(blast.all_windows) : blast.all_windows[i].index = i - 1
    /\ (cls.status = "ok" /\ ValidRaw)
         => EnumeratesWindows(cls.windows, genome, motif)

C1_Witness ==
    /\ op = "compare" /\ pc = "done"
    /\ blast.status = "ok" /\ Len(blast.all_windows) >= 2
    /\ cls.status = "ok" /\ Len(cls.windows) >= 2

\* Exact comparison of two fractions with positive denominators.
FracLess(a, b) == a.num * b.den < b.num * a.den
FracEq(a, b) == a.num * b.den = b.num * a.den

\* The windows of a blast result that reach the threshold.
Qualifying == {i \in 1..Len(blast.all_windows) :
                 blast.all_windows[i].identity.num
                   >= threshold * blast.all_windows[i].identity.den}

\* C2: hits holds exactly the windows with identity >= threshold, each once,
\* ordered by identity descending, then score descending, then index
\* ascending; top_hit is the first hit and is None iff no window qualifies.
C2_HitsRanked ==
    ((op \in {"blast", "compare_methods"} /\ pc = "done" /\ ValidInput) => blast.status = "ok")
    /\ (blast.status = "ok" =>
         LET h == blast.hits IN
         /\ SeqToSet(h) = {blast.all_windows[i] : i \in Qualifying}
         /\ Len(h) = Cardinality(Qualifying)
         /\ \A i \in 1..(Len(h) - 1) :
              \/ FracLess(h[i + 1].identity, h[i].identity)
              \/ /\ FracEq(h[i].identity, h[i + 1].identity)
                 /\ h[i].score > h[i + 1].score
              \/ /\ FracEq(h[i].identity, h[i + 1].identity)
                 /\ h[i].score = h[i + 1].score
                 /\ h[i].index < h[i + 1].index
         /\ (h # <<>> => blast.top_hit = h[1])
         /\ (blast.top_hit = NoHit <=> Qualifying = {}))

C2_Witness ==
    /\ op = "blast" /\ pc = "done" /\ blast.status = "ok"
    /\ Len(blast.hits) >= 2
    /\ Len(blast.hits) < Len(blast.all_windows)
    /\ \E i \in 1..(Len(blast.hits) - 1) :
         /\ blast.hits[i].score = blast.hits[i + 1].score
         /\ blast.hits[i].index < blast.hits[i + 1].index
    /\ \E i \in 1..Len(blast.all_windows) :
         blast.all_windows[i].identity.num = threshold * blast.all_windows[i].identity.den

StrictlyAscending(q) == \A i \in 1..(Len(q) - 1) : q[i] < q[i + 1]

\* The two hit sets compare_methods was given.
HitsA == SeqToSet(given)
HitsB == {blast.hits[i].index : i \in 1..Len(blast.hits)}

\* C3: overlap = A \cap B, grover_only = A \ B, blast_only = B \ A, each
\* strictly ascending; agreement_ratio = |A \cap B| / |A \cup B|, 0 when the
\* union is empty; the ratio is in [0,1], 0 iff A \cap B is empty and 1 iff
\* A = B and A is non-empty.
C3_SetReconciliation ==
    (op \in {"compare_methods", "compare"} /\ pc = "done" /\ res.status = "ok") =>
        LET an == res.analysis
            r == an.agreement_ratio
        IN /\ SeqToSet(an.overlap_indices) = HitsA \cap HitsB
           /\ SeqToSet(an.grover_only) = HitsA \ HitsB
           /\ SeqToSet(an.blast_only) = HitsB \ HitsA
           /\ StrictlyAscending(an.overlap_indices)
           /\ StrictlyAscending(an.grover_only)
           /\ StrictlyAscending(an.blast_only)
           /\ r.den >= 1
           /\ (HitsA \cup HitsB # {} =>
                 r.num * Cardinality(HitsA \cup HitsB) = Cardinality(HitsA \cap HitsB) * r.den)
           /\ (HitsA \cup HitsB = {} => r.num = 0)
           /\ 0 <= r.num /\ r.num <= r.den
           /\ (r.num = 0 <=> HitsA \cap HitsB = {})
           /\ (r.num = r.den <=> (HitsA = HitsB /\ HitsA # {}))

C3_Witness ==
    /\ op = "compare_methods" /\ pc = "done" /\ res.status = "ok"
    /\ Len(res.analysis.overlap_indices) >= 1
    /\ Len(res.analysis.grover_only) >= 1
    /\ Len(res.analysis.blast_only) >= 1
    /\ res.analysis.agreement_ratio.num * 3 = res.analysis.agreement_ratio.den

\* C4: the message is chosen by the first matching rule; each of the five
\* messages is returned exactly in its case.
C4_MessageChain ==
    (op \in {"compare_methods", "compare"} /\ pc = "done" /\ res.status = "ok") =>
        LET ov == HitsA \cap HitsB
            ea == HitsA \ HitsB
            eb == HitsB \ HitsA
            msg == res.analysis.message
        IN /\ msg \in {"full", "partial", "only_grover", "only_blast", "neither"}
           /\ (msg = "full" <=> (ov # {} /\ ea = {} /\ eb = {}))
           /\ (msg = "partial" <=> (ov # {} /\ (ea # {} \/ eb # {})))
           /\ (msg = "only_grover" <=> (ov = {} /\ ea # {} /\ eb = {}))
           /\ (msg = "only_blast" <=> (ov = {} /\ eb # {} /\ ea = {}))
           /\ (msg = "neither" <=> (ov = {} /\ ((ea # {} /\ eb # {}) \/ (ea = {} /\ eb = {}))))

C4_Witness ==
    /\ op = "compare_methods" /\ pc = "done" /\ res.status = "ok"
    /\ res.analysis.message = "neither"
    /\ res.analysis.grover_only # <<>>
    /\ res.analysis.blast_only # <<>>

\* The ground truth run_trials works against.
GroundTruth == SeqToSet(classical_find_occurrences(genome, motif).good)
WindowCount == Len(classical_find_occurrences(genome, motif).windows)
InTrials == op \in {"build_results", "compare"}

\* C5: with a motif that occurs and T >= 1, after k completed trials the
\* sampler was invoked k times, the frequencies sum to k, every stored count
\* is >= 1 and the hit counter is the frequency mass on the ground truth; on
\* return the sampler was invoked T times, total_shots = T and
\* accuracy = hits / T lies in [0,1].
C5_TrialAggregation ==
    (InTrials /\ GroundTruth # {} /\ trials >= 1) =>
        /\ calls = k
        /\ k <= trials
        /\ CounterTotal(counts) = k
        /\ \A i \in DOMAIN counts : counts[i] >= 1
        /\ hits = SumOver(counts, GroundTruth \cap DOMAIN counts)
        /\ (pc \in {"returned", "done"} =>
              /\ rt.status = "ok"
              /\ calls = trials
              /\ rt.counts = counts
              /\ CounterTotal(rt.counts) = trials
              /\ rt.acc = [num |-> hits, den |-> trials]
              /\ 0 <= rt.acc.num /\ rt.acc.num <= rt.acc.den)
        /\ ((pc = "done" /\ op = "build_results") =>
              /\ res.status = "ok"
              /\ res.total_shots = trials
              /\ res.accuracy = rt.acc)

C5_Witness ==
    /\ op = "build_results" /\ pc = "done" /\ res.status = "ok"
    /\ trials = MaxTrials
    /\ hits >= 1 /\ hits < trials
    /\ \E i \in DOMAIN counts : i \notin GroundTruth

\* C6: when the motif matches no window, run_trials raises the ValueError
\* for every trial count, without any sampler call, frequency entry or result.
C6_NoOccurrencePrecondition ==
    (InTrials /\ GroundTruth = {} /\ pc \in {"returned", "done"} /\ cls.status = "ok") =>
        /\ rt.status = "ValueError"
        /\ calls = 0
        /\ counts = EmptyCounter

\* C7: every sampled index, hence every key of the frequency map, is a
\* window index in [0, N-1].
C7_SampledIndexInRange ==
    (InTrials /\ ValidRaw) => \A i \in DOMAIN counts : 0 <= i /\ i <= WindowCount - 1

\* C8: with an input that is empty after normalisation or whose motif is
\* longer than the genome, blast_search and the run_trials path fail with a
\* validation error and return no windows, hits or trial result.
C8_InvalidInputFails ==
    ~ValidInput =>
        /\ (op \in {"blast", "compare_methods"} /\ pc = "done")
              => (blast.status = "ValueError" /\ res.status = "ValueError")
        /\ (op = "build_results" /\ trials >= 1)
              => /\ calls = 0
                 /\ (pc \in {"returned", "done"} => rt.status = "ValueError")

\* The exact hit set over the normalised genome and motif.
NormGood == SeqToSet(classical_find_occurrences(NormGenome, NormMotif).good)

\* C9: per scored window, matches counts the equal positions, identity =
\* matches / len(motif) * 100 lies in [0,100], score = 2*matches -
\* (len(motif) - matches), and identity = 100, matches = len(motif),
\* is_perfect and membership in the exact hit set are equivalent.
C9_ScoredWindow ==
    blast.status = "ok" =>
        \A i \in 1..Len(blast.all_windows) :
            LET w == blast.all_windows[i]
                L == Len(NormMotif)
                eq == {j \in 1..L : w.window[j] = NormMotif[j]}
            IN /\ Len(w.window) = L
               /\ w.matches = Cardinality(eq)
               /\ w.identity.den = L
               /\ w.identity.num = w.matches * 100
               /\ 0 <= w.identity.num /\ w.identity.num <= 100 * w.identity.den
               /\ w.score = 2 * w.matches - (L - w.matches)
               /\ (w.identity.num = 100 * w.identity.den <=> w.matches = L)
               /\ (w.matches = L <=> w.is_perfect)
               /\ (w.is_perfect <=> w.index \in NormGood)

C9_Witness ==
    /\ op = "blast" /\ pc = "done" /\ blast.status = "ok"
    /\ \E i, j \in 1..Len(blast.all_windows) :
         /\ blast.all_windows[i].is_perfect
         /\ blast.all_windows[j].matches >= 1
         /\ ~blast.all_windows[j].is_perfect

\* C10: whenever the /compare flow completes with a threshold <= 100, every
\* ground-truth index is a scored hit at the same index: grover_only is
\* empty, overlap is the ground truth and the message is neither
\* 'only Grover' nor 'neither'.
C10_GroundTruthIsScoredHit ==
    (op = "compare" /\ pc = "done" /\ res.status = "ok" /\ threshold <= 100) =>
        /\ res.analysis.grover_only = <<>>
        /\ res.analysis.overlap_indices = cls.good
        /\ res.analysis.message \notin {"only_grover", "neither"}
====
